---------------------------- MODULE Spec2Model ----------------------------
(***************************************************************************)
(* A state-machine model of main.py, the driver script of densenet-pytorch *)
(* (argument handling, checkpoint restore, the epoch loop, best-accuracy   *)
(* tracking, save_checkpoint, adjust_learning_rate and the test passes).   *)
(*                                                                         *)
(* Abstractions.                                                           *)
(*  - A learning rate args.lr * 0.1^k is represented by its decimal        *)
(*    exponent k (floating-point rounding of the product is not modelled). *)
(*  - Validation precisions are naturals 0..MaxPrec; 0 stands for 0.0.     *)
(*  - A state_dict (the model weights) is the sequence of the epochs that  *)
(*    trained it; PriorWeights marks weights trained before this model's   *)
(*    history begins, <<>> the freshly constructed network.                *)
(*  - train(), validate() and test() are external (train.py): train        *)
(*    changes the weights, validate returns any precision, test reads.     *)
(*  - TensorBoard logging (configure, log_value) only writes event files   *)
(*    of the external logger and is read by nothing here: not modelled.    *)
(***************************************************************************)
EXTENDS Integers, Sequences, FiniteSets, TLC

VARIABLES
    args,         \* the parsed command line (argparse Namespace)
    best_prec1,   \* module-level global best_prec1
    model,        \* the network's weights (state_dict)
    test_loader,  \* TRUE once test_loader has been constructed
    optimizer,    \* decimal exponent k of param_group['lr'] = args.lr * 0.1^k
    epoch,        \* loop variable of `for epoch in range(start_epoch, epochs)`
    prec1,        \* value returned by validate() in the current epoch
    fs,           \* the files under runs/: path -> checkpoint dict or NoFile
    pc,           \* position of main()
    log,          \* calls made by this invocation of main(), in order
    printed,      \* value printed as 'Best accuracy', or NotPrinted
    fs0,          \* fs when this invocation of main() started
    args0,        \* the command line as given (args is rewritten by main)
    past          \* logs of the completed epochs of earlier, stopped runs

vars == <<args, best_prec1, model, test_loader, optimizer, epoch,
          prec1, fs, pc, log, printed, fs0, args0, past>>

---------------------------------------------------------------------------
(* Bounds of the model *)

\* epochs of one run are taken from a window base .. base + MaxEpochs
MaxEpochs == 2
\* validation precisions are 0 .. MaxPrec
MaxPrec == 2
\* adjust_learning_rate is explored for epochs 0 .. MaxLrEpoch
MaxLrEpoch == 460

(* Program constants *)

\* decay boundaries of adjust_learning_rate
CifarStep1 == 150
CifarStep2 == 225
ImagenetStep1 == 30
ImagenetStep2 == 60

\* default of --name
DefaultName == "DenseNet_BC_100_12"
OtherName == "other_run"

NoFile == [epoch |-> -1, best_prec1 |-> -1, state_dict |-> <<>>]
NotPrinted == -1
PriorWeights == <<-1>>
\* the best precision recorded in a checkpoint left by earlier training
PriorBest == MaxPrec - 1
InitWeights == <<>>

PrecValues == 0 .. MaxPrec

\* windows of epochs: the start of training and the decay boundaries
EpochBases == {0, CifarStep1 - 1, CifarStep2 - 1}

---------------------------------------------------------------------------
(* Paths *)

\* f"runs/{name}/checkpoint.pth.tar"
CheckpointPath(name) ==
    IF name = DefaultName THEN "runs/DenseNet_BC_100_12/checkpoint.pth.tar"
    ELSE "runs/other_run/checkpoint.pth.tar"

\* f"runs/{name}/model_best.pth.tar"
BestPath(name) ==
    IF name = DefaultName THEN "runs/DenseNet_BC_100_12/model_best.pth.tar"
    ELSE "runs/other_run/model_best.pth.tar"

MissingPath == "runs/missing.pth.tar"

Paths == {CheckpointPath(DefaultName), BestPath(DefaultName),
          CheckpointPath(OtherName)}

\* os.path.isfile
isfile(path) == path \in DOMAIN fs /\ fs[path] # NoFile

---------------------------------------------------------------------------
(* Pure functions *)

\* the decimal exponent of lr / args.lr computed by adjust_learning_rate
adjust_learning_rate(imagenet, e) ==
    IF imagenet
    THEN (e \div ImagenetStep1) + (e \div ImagenetStep2)
    ELSE (e \div CifarStep1) + (e \div CifarStep2)

\* faulty variant: a tie counts as a new best
is_best_or_equal(p, best) == p >= best

\* is_best = prec1 > best_prec1
is_best(p, best) == p > best

\* faulty variant: the latest precision replaces the best one
max_latest(p, best) == p

\* best_prec1 = max(prec1, best_prec1)
max(p, best) == IF p > best THEN p ELSE best

\* faulty variant: the copy to model_best.pth.tar is made before the new save
save_checkpoint_copy_first(files, name, state, best) ==
    LET copied == IF best
                  THEN [files EXCEPT ![BestPath(name)] =
                                         files[CheckpointPath(name)]]
                  ELSE files
    IN  [copied EXCEPT ![CheckpointPath(name)] = state]

\* save_checkpoint(state, is_best): the file system after the call
save_checkpoint(files, name, state, best) ==
    LET saved == [files EXCEPT ![CheckpointPath(name)] = state]
    IN  IF best
        THEN [saved EXCEPT ![BestPath(name)] = saved[CheckpointPath(name)]]
        ELSE saved

\* faulty variant: 'epoch' is the epoch just trained, not the next one
CheckpointState_same_epoch(e, weights, best) ==
    [epoch |-> e, state_dict |-> weights, best_prec1 |-> best]

\* the dict passed to save_checkpoint by the epoch loop
CheckpointState(e, weights, best) ==
    [epoch |-> e + 1, state_dict |-> weights, best_prec1 |-> best]

\* faulty variant: --test is honoured with --imagenet too
TestOnly_any_dataset(a) == a.test # ""

\* `if args.test and not args.imagenet`
TestOnly(a) == a.test # "" /\ ~a.imagenet

\* `if not args.imagenet` guarding the construction of test_loader
BuildsTestLoader(a) == ~a.imagenet

\* faulty variant: the final test pass is unconditional
RunsFinalTest_always(a) == TRUE

\* `if not args.imagenet` guarding the final test pass
RunsFinalTest(a) == ~a.imagenet

Event(ev, e, val) == [ev |-> ev, epoch |-> e, val |-> val]

---------------------------------------------------------------------------
(* Initial states *)

\* the command lines explored for the epoch window starting at b
ArgsIn(b) ==
    [epochs      : b .. b + MaxEpochs,
     start_epoch : b .. b + MaxEpochs,
     resume      : {"", CheckpointPath(DefaultName), MissingPath},
     imagenet    : BOOLEAN,
     test        : {"", DefaultName, OtherName},
     name        : {DefaultName}]

ArgSets == UNION { ArgsIn(b) : b \in EpochBases }

\* checkpoints left by earlier training
PriorCkpts(b) ==
    [epoch : b + 1 .. b + MaxEpochs, best_prec1 : {PriorBest},
     state_dict : {PriorWeights}]

Init ==
    /\ \E b \in EpochBases :
          /\ args \in ArgsIn(b)
          /\ \E c \in PriorCkpts(b), present \in SUBSET Paths :
                fs = [p \in Paths |-> IF p \in present THEN c ELSE NoFile]
    /\ args0 = args
    /\ best_prec1 = 0
    /\ model = InitWeights
    /\ test_loader = FALSE
    /\ optimizer = 0
    /\ epoch = 0
    /\ prec1 = 0
    /\ fs0 = fs
    /\ pc = "setup"
    /\ log = <<>>
    /\ printed = NotPrinted
    /\ past = <<>>

---------------------------------------------------------------------------
(* Actions: the steps of main() *)

\* lines 61-141: transforms, datasets, loaders, model
Setup ==
    /\ pc = "setup"
    /\ test_loader' = BuildsTestLoader(args)
    /\ model' = InitWeights
    /\ pc' = "resume"
    /\ UNCHANGED <<args, best_prec1, optimizer, epoch, prec1, fs, log,
                   printed, fs0, args0, past>>

\* faulty variant: the restore leaves best_prec1 alone
Resume_keeps_best ==
    /\ pc = "resume"
    /\ IF args.resume # "" /\ isfile(args.resume)
       THEN LET checkpoint == fs[args.resume]
            IN  /\ args' = [args EXCEPT !.start_epoch = checkpoint.epoch]
                /\ model' = checkpoint.state_dict
                /\ log' = Append(log, Event("restore", checkpoint.epoch,
                                            checkpoint.best_prec1))
                /\ UNCHANGED best_prec1
       ELSE UNCHANGED <<args, best_prec1, model, log>>
    /\ pc' = "testmode"
    /\ UNCHANGED <<test_loader, optimizer, epoch, prec1, fs,
                   printed, fs0, args0, past>>

\* lines 143-153: optionally resume from a checkpoint
Resume ==
    /\ pc = "resume"
    /\ IF args.resume # "" /\ isfile(args.resume)
       THEN LET checkpoint == fs[args.resume]
            IN  /\ args' = [args EXCEPT !.start_epoch = checkpoint.epoch]
                /\ best_prec1' = checkpoint.best_prec1
                /\ model' = checkpoint.state_dict
                /\ log' = Append(log, Event("restore", checkpoint.epoch,
                                            checkpoint.best_prec1))
       ELSE UNCHANGED <<args, best_prec1, model, log>>
    /\ pc' = "testmode"
    /\ UNCHANGED <<test_loader, optimizer, epoch, prec1, fs,
                   printed, fs0, args0, past>>

\* lines 157-169: the test-only branch, which returns from main()
TestMode ==
    /\ pc = "testmode"
    /\ TestOnly(args)
    /\ LET path == CheckpointPath(args.test)
       IN  IF isfile(path)
           THEN LET checkpoint == fs[path]
                IN  /\ args' = [args EXCEPT !.test = path,
                                            !.start_epoch = checkpoint.epoch]
                    /\ best_prec1' = checkpoint.best_prec1
                    /\ model' = checkpoint.state_dict
                    /\ log' = Append(log, Event("test", checkpoint.epoch,
                                                test_loader))
           ELSE /\ args' = [args EXCEPT !.test = path]
                /\ UNCHANGED <<best_prec1, model, log>>
    /\ pc' = "returned"
    /\ UNCHANGED <<test_loader, optimizer, epoch, prec1, fs,
                   printed, fs0, args0, past>>

\* lines 171-178: criterion, optimizer, and entry into the epoch loop
EnterLoop ==
    /\ pc = "testmode"
    /\ ~TestOnly(args)
    /\ optimizer' = 0
    /\ epoch' = args.start_epoch
    /\ pc' = "loop"
    /\ UNCHANGED <<args, best_prec1, model, test_loader, prec1, fs, log,
                   printed, fs0, args0, past>>

\* faulty variant: the range includes args.epochs
LoopHead_inclusive ==
    /\ pc = "loop"
    /\ pc' = IF epoch <= args.epochs THEN "adjust" ELSE "print"
    /\ UNCHANGED <<args, best_prec1, model, test_loader, optimizer, epoch,
                   prec1, fs, log, printed, fs0, args0, past>>

\* line 178: `for epoch in range(args.start_epoch, args.epochs)`
LoopHead ==
    /\ pc = "loop"
    /\ pc' = IF epoch < args.epochs THEN "adjust" ELSE "print"
    /\ UNCHANGED <<args, best_prec1, model, test_loader, optimizer, epoch,
                   prec1, fs, log, printed, fs0, args0, past>>

\* faulty variant: the epoch goes from adjust_learning_rate straight to validate
AdjustLR_skips_train ==
    /\ pc = "adjust"
    /\ optimizer' = adjust_learning_rate(args.imagenet, epoch)
    /\ log' = Append(log, Event("adjust", epoch, optimizer'))
    /\ pc' = "validate"
    /\ UNCHANGED <<args, best_prec1, model, test_loader, epoch, prec1, fs,
                   printed, fs0, args0, past>>

\* line 179: adjust_learning_rate(optimizer, epoch)
AdjustLR ==
    /\ pc = "adjust"
    /\ optimizer' = adjust_learning_rate(args.imagenet, epoch)
    /\ log' = Append(log, Event("adjust", epoch, optimizer'))
    /\ pc' = "train"
    /\ UNCHANGED <<args, best_prec1, model, test_loader, epoch, prec1, fs,
                   printed, fs0, args0, past>>

\* line 182: train(train_loader, model, criterion, optimizer, epoch, args)
Train ==
    /\ pc = "train"
    /\ model' = Append(model, epoch)
    /\ log' = Append(log, Event("train", epoch, optimizer))
    /\ pc' = "validate"
    /\ UNCHANGED <<args, best_prec1, test_loader, optimizer, epoch, prec1,
                   fs, printed, fs0, args0, past>>

\* line 185: prec1 = validate(val_loader, model, criterion, epoch, args)
Validate ==
    /\ pc = "validate"
    /\ \E p \in PrecValues : prec1' = p
    /\ log' = Append(log, Event("validate", epoch, prec1'))
    /\ pc' = "save"
    /\ UNCHANGED <<args, best_prec1, model, test_loader, optimizer, epoch,
                   fs, printed, fs0, args0, past>>

\* lines 187-194: remember best prec@1 and save checkpoint
Save ==
    /\ pc = "save"
    /\ best_prec1' = max(prec1, best_prec1)
    /\ fs' = save_checkpoint(fs, args.name,
                             CheckpointState(epoch, model, best_prec1'),
                             is_best(prec1, best_prec1))
    /\ log' = Append(log, Event("save", epoch, is_best(prec1, best_prec1)))
    /\ epoch' = epoch + 1
    /\ pc' = "loop"
    /\ UNCHANGED <<args, model, test_loader, optimizer, prec1, printed,
                   fs0, args0, past>>

\* line 195: print('Best accuracy: ', best_prec1)
PrintBest ==
    /\ pc = "print"
    /\ printed' = best_prec1
    /\ pc' = "finaltest"
    /\ UNCHANGED <<args, best_prec1, model, test_loader, optimizer, epoch,
                   prec1, fs, log, fs0, args0, past>>

\* lines 197-198: the held-out test pass
FinalTest ==
    /\ pc = "finaltest"
    /\ IF RunsFinalTest(args)
       THEN log' = Append(log, Event("test", epoch, test_loader))
       ELSE UNCHANGED log
    /\ pc' = "done"
    /\ UNCHANGED <<args, best_prec1, model, test_loader, optimizer, epoch,
                   prec1, fs, printed, fs0, args0, past>>

\* the process is stopped between two epochs, after a save_checkpoint
Stop ==
    /\ pc = "loop"
    /\ \E i \in 1 .. Len(log) : log[i].ev = "save"
    /\ pc' = "stopped"
    /\ UNCHANGED <<args, best_prec1, model, test_loader, optimizer, epoch,
                   prec1, fs, log, printed, fs0, args0, past>>

\* main() is started again with the same command line plus
\* --resume runs/<name>/checkpoint.pth.tar; only the files survive
Rerun ==
    /\ pc = "stopped"
    /\ args' = [args0 EXCEPT !.resume = CheckpointPath(args0.name)]
    /\ args0' = args'
    /\ best_prec1' = 0
    /\ model' = InitWeights
    /\ test_loader' = FALSE
    /\ optimizer' = 0
    /\ epoch' = 0
    /\ prec1' = 0
    /\ printed' = NotPrinted
    /\ past' = past \o log
    /\ log' = <<>>
    /\ fs0' = fs
    /\ pc' = "setup"
    /\ UNCHANGED fs

Next ==
    \/ Setup
    \/ Resume
    \/ TestMode
    \/ EnterLoop
    \/ LoopHead
    \/ AdjustLR
    \/ Train
    \/ Validate
    \/ Save
    \/ PrintBest
    \/ FinalTest

\* one invocation of main()
Spec == Init /\ [][Next]_vars

NextResume ==
    \/ Next
    \/ Stop
    \/ Rerun

\* main() stopped after an epoch and resumed, any number of times
ResumeSpec == Init /\ [][NextResume]_vars

\* adjust_learning_rate alone, over a range of epochs
LrInit ==
    /\ args \in [epochs      : {MaxLrEpoch + 1},
                 start_epoch : {0},
                 resume      : {""},
                 imagenet    : BOOLEAN,
                 test        : {""},
                 name        : {DefaultName}]
    /\ args0 = args
    /\ best_prec1 = 0
    /\ model = InitWeights
    /\ test_loader = BuildsTestLoader(args)
    /\ optimizer = 0
    /\ epoch \in 0 .. MaxLrEpoch
    /\ prec1 = 0
    /\ fs = [p \in Paths |-> NoFile]
    /\ fs0 = fs
    /\ pc = "adjust"
    /\ log = <<>>
    /\ printed = NotPrinted
    /\ past = <<>>

LrNext == AdjustLR

LrSpec == LrInit /\ [][LrNext]_vars

\* main() runs on: every call it makes returns
FairSpec == Spec /\ WF_vars(Next)

---------------------------------------------------------------------------
(* Vocabulary of the properties *)

\* the positions of the events of one kind in a log
Idx(l, kind) == {i \in 1 .. Len(l) : l[i].ev = kind}

\* a run that is not the test-only mode
TrainingRun == ~(args0.test # "" /\ ~args0.imagenet)

\* positions of main() from the entry into the epoch loop on
LoopPcs == {"loop", "adjust", "train", "validate", "save", "print",
            "finaltest", "done", "stopped"}

Restored(l) == Len(l) >= 1 /\ l[1].ev = "restore"

\* best_prec1 at the entry of the epoch loop of the run with log l
EntryBest(l) == IF Restored(l) THEN l[1].val ELSE 0

MaxOf(S) == CHOOSE m \in S : \A x \in S : x <= m

\* the precisions validate() returned before position i of the log
PrecsBefore(l, i) ==
    {l[j].val : j \in {k \in 1 .. i - 1 : k <= Len(l) /\ l[k].ev = "validate"}}

\* the maximum of the entry value and the precisions before position i
BestBefore(l, i) == MaxOf({EntryBest(l)} \cup PrecsBefore(l, i))

\* the content of a path in a file system, NoFile when there is none
FileAt(files, path) == IF path \in DOMAIN files THEN files[path] ELSE NoFile

\* the weights at the entry of the epoch loop of this run
EntryWeights ==
    IF Restored(log) THEN FileAt(fs0, args0.resume).state_dict ELSE InitWeights

\* the weights after training epochs first .. e on top of weights w
RECURSIVE TrainedTo(_, _, _)
TrainedTo(w, first, e) ==
    IF e < first THEN w ELSE Append(TrainedTo(w, first, e - 1), e)

\* max(0, epochs - start_epoch)
EpochsToRun == IF args.epochs > args.start_epoch
               THEN args.epochs - args.start_epoch ELSE 0

\* the epoch-loop events of a log, in order
LoopEvents(l) == SelectSeq(l, LAMBDA x : x.ev \notin {"restore", "test"})

---------------------------------------------------------------------------
(* C1 *)

\* C1: in a training run the checkpoint restore precedes the first epoch,
\* every epoch is adjust_learning_rate, train, validate, save_checkpoint in
\* this order with the next epoch starting only after the save, and the
\* test pass comes last, after the last save, and only without --imagenet.
C1_EventOrder ==
    TrainingRun =>
      /\ \A i \in 1 .. Len(log) :
            /\ log[i].ev = "restore" => i = 1
            /\ log[i].ev = "adjust" =>
                  IF i = 1 \/ log[i - 1].ev = "restore"
                  THEN log[i].epoch = args.start_epoch
                  ELSE /\ log[i - 1].ev = "save"
                       /\ log[i].epoch = log[i - 1].epoch + 1
            /\ log[i].ev = "train" =>
                  i > 1 /\ log[i - 1].ev = "adjust"
                        /\ log[i - 1].epoch = log[i].epoch
            /\ log[i].ev = "validate" =>
                  i > 1 /\ log[i - 1].ev = "train"
                        /\ log[i - 1].epoch = log[i].epoch
            /\ log[i].ev = "save" =>
                  i > 1 /\ log[i - 1].ev = "validate"
                        /\ log[i - 1].epoch = log[i].epoch
            /\ log[i].ev = "test" =>
                  /\ i = Len(log)
                  /\ pc = "done"
                  /\ ~args.imagenet
                  /\ i > 1 => \/ log[i - 1].ev = "restore"
                              \/ /\ log[i - 1].ev = "save"
                                 /\ log[i - 1].epoch = args.epochs - 1
      /\ pc \in {"setup", "resume"} => Idx(log, "restore") = {}
      /\ pc = "done" /\ ~args.imagenet => Idx(log, "test") # {}

\* a CIFAR run that trained two epochs and ran the test pass
C1_Witness ==
    /\ pc = "done"
    /\ Cardinality(Idx(log, "save")) >= 2
    /\ log[Len(log)].ev = "test"

---------------------------------------------------------------------------
(* C3 *)

\* C3: after every completed epoch best_prec1 is the maximum of its value
\* at loop entry (0.0 or the restored value) and the precisions returned so
\* far, and the value printed as 'Best accuracy' is that maximum.
C3_BestIsMax ==
    TrainingRun =>
      /\ pc \in LoopPcs \ {"save"} =>
            best_prec1 = BestBefore(log, Len(log) + 1)
      /\ pc = "save" => best_prec1 = BestBefore(log, Len(log))
      /\ pc \in {"finaltest", "done"} =>
            printed = BestBefore(log, Len(log) + 1)

\* a finished run whose last epoch validated below an earlier one
C3_Witness ==
    /\ pc = "done"
    /\ TrainingRun
    /\ Cardinality(Idx(log, "validate")) >= 2
    /\ prec1 < best_prec1
    /\ best_prec1 > EntryBest(log)
    /\ printed = best_prec1

---------------------------------------------------------------------------
(* C6 *)

---------------------------------------------------------------------------
(* C7 *)

\* C7: when --resume names no existing file, start_epoch keeps its
\* command-line value, best_prec1 stays 0.0, no weights are loaded and the
\* run goes on into the training loop; only when the file exists are
\* start_epoch, best_prec1 and the weights all three replaced.
C7_MissingCheckpoint ==
    /\ FileAt(fs0, args0.resume) = NoFile =>
          /\ Idx(log, "restore") = {}
          /\ pc = "testmode" =>
                /\ args.start_epoch = args0.start_epoch
                /\ best_prec1 = 0
                /\ model = InitWeights
          /\ TrainingRun =>
                /\ args.start_epoch = args0.start_epoch
                /\ pc \notin {"setup", "resume", "testmode"} =>
                      /\ pc \in LoopPcs
                      /\ EntryBest(log) = 0
                      /\ LoopEvents(log) # <<>> =>
                            LoopEvents(log)[1].epoch = args0.start_epoch
    /\ (FileAt(fs0, args0.resume) # NoFile /\ pc = "testmode") =>
          /\ args.start_epoch = FileAt(fs0, args0.resume).epoch
          /\ best_prec1 = FileAt(fs0, args0.resume).best_prec1
          /\ model = FileAt(fs0, args0.resume).state_dict

\* a run given a missing --resume path that went on to train an epoch
C7_Witness ==
    /\ args0.resume = MissingPath
    /\ pc = "loop"
    /\ Cardinality(Idx(log, "save")) >= 1

---------------------------------------------------------------------------
(* C10 *)

\* C10: test_loader is constructed exactly when --imagenet is not set, and
\* every call of test() is made with it constructed and without
\* --imagenet; an ImageNet run never runs a test pass.
C10_TestLoader ==
    /\ pc # "setup" => (test_loader <=> ~args.imagenet)
    /\ \A i \in Idx(log, "test") : log[i].val = TRUE /\ ~args.imagenet
    /\ args.imagenet => Idx(log, "test") = {}

\* an ImageNet run given --test and --resume finished without a test pass
C10_Witness ==
    /\ pc = "done"
    /\ args.imagenet
    /\ args0.test # ""
    /\ Restored(log)
    /\ Idx(log, "test") = {}
    /\ Idx(log, "save") # {}

---------------------------------------------------------------------------
(* C2 *)

\* C2: for a CIFAR-10 run adjust_learning_rate sets the rate to lr for
\* epoch < 150, lr/10 for 150 <= epoch < 225 and lr/100 for epoch >= 225:
\* the decimal exponent of the decay is 0, 1 or 2 and never more.
C2_DecayAt150And225 ==
    (pc = "train" /\ ~args.imagenet) =>
        optimizer = IF epoch < CifarStep1 THEN 0
                    ELSE IF epoch < CifarStep2 THEN 1 ELSE 2

---------------------------------------------------------------------------
(* C4 *)

\* the position of the last save_checkpoint that was called with is_best
LastBestSave == MaxOf({i \in Idx(log, "save") : log[i].val})

\* C4 as stated: after a training loop of at least one epoch
\* model_best.pth.tar exists and holds the state saved at an epoch whose
\* precision is the highest seen in this run; it is overwritten in an
\* epoch iff that epoch's prec1 is strictly greater than best_prec1 before.
C4_BestFileAlwaysWritten ==
    (TrainingRun /\ pc \in {"print", "finaltest", "done"}
                 /\ Idx(log, "save") # {}) =>
      /\ fs[BestPath(args.name)] # NoFile
      /\ \E i \in Idx(log, "validate") :
            /\ log[i].val = MaxOf(PrecsBefore(log, Len(log) + 1))
            /\ fs[BestPath(args.name)].state_dict =
                   TrainedTo(EntryWeights, args.start_epoch, log[i].epoch)
      /\ \A i \in Idx(log, "save") :
            log[i].val = (log[i - 1].val > BestBefore(log, i - 1))

\* C4 amended: model_best.pth.tar is overwritten in an epoch iff that
\* epoch's prec1 is strictly greater than best_prec1 before the epoch; so
\* if some epoch of the run exceeded the best_prec1 of loop entry the file
\* holds the state saved at the first epoch that reached the highest
\* precision of the run, and otherwise the file is as it was before the run.
C4_BestFileIffStrictlyBetter ==
    (TrainingRun /\ pc \in LoopPcs \ {"save"}) =>
      /\ \A i \in Idx(log, "save") :
            log[i].val = (log[i - 1].val > BestBefore(log, i - 1))
      /\ IF \E i \in Idx(log, "save") : log[i].val
         THEN LET k == LastBestSave
                  e == log[k].epoch
              IN  /\ fs[BestPath(args.name)] =
                        [epoch |-> e + 1,
                         state_dict |->
                             TrainedTo(EntryWeights, args.start_epoch, e),
                         best_prec1 |-> log[k - 1].val]
                  /\ log[k - 1].val = MaxOf(PrecsBefore(log, Len(log) + 1))
                  /\ log[k - 1].val > EntryBest(log)
                  /\ \A j \in Idx(log, "validate") :
                        j < k - 1 => log[j].val < log[k - 1].val
         ELSE fs[BestPath(args.name)] = fs0[BestPath(args.name)]

\* a finished run whose best epoch was tied by a later one, which did not
\* replace the file
C4_Witness ==
    /\ pc = "done"
    /\ TrainingRun
    /\ \E i \in Idx(log, "save") : log[i].val
    /\ LastBestSave < Len(log) - 1
    /\ prec1 = best_prec1
    /\ fs[BestPath(args.name)].epoch < fs[CheckpointPath(args.name)].epoch

---------------------------------------------------------------------------
(* C8 *)

\* C8: between epochs checkpoint.pth.tar holds the most recently trained
\* epoch with 'epoch' = that epoch + 1 and 'best_prec1' = the current
\* best_prec1, and if model_best.pth.tar was written in this run its
\* 'best_prec1' equals that of checkpoint.pth.tar and its 'epoch' is less
\* than or equal to that of checkpoint.pth.tar.
C8_FilesConsistent ==
    (TrainingRun /\ pc \in {"loop", "print", "finaltest", "done"}
                 /\ Idx(log, "save") # {}) =>
      LET k == MaxOf(Idx(log, "save"))
          c == fs[CheckpointPath(args.name)]
          b == fs[BestPath(args.name)]
      IN  /\ c.epoch = log[k].epoch + 1
          /\ c.best_prec1 = best_prec1
          /\ c.state_dict = model
          /\ (\E i \in Idx(log, "save") : log[i].val) =>
                /\ b.best_prec1 = c.best_prec1
                /\ b.epoch <= c.epoch

\* between two epochs, model_best.pth.tar written an epoch earlier than
\* checkpoint.pth.tar
C8_Witness ==
    /\ pc = "loop"
    /\ \E i \in Idx(log, "save") : log[i].val
    /\ fs[BestPath(args.name)].epoch < fs[CheckpointPath(args.name)].epoch
    /\ fs[BestPath(args.name)].best_prec1 = best_prec1

---------------------------------------------------------------------------
(* C9 *)

Terminated == pc \in {"done", "returned"}

C9_Counts ==
    (TrainingRun /\ pc \in {"print", "finaltest", "done"}) =>
      /\ Cardinality(Idx(log, "train")) = EpochsToRun
      /\ Cardinality(Idx(log, "save")) = EpochsToRun
      /\ {log[i].epoch : i \in Idx(log, "save")} =
             args.start_epoch .. args.epochs - 1
      /\ pc # "print" => printed = best_prec1
      /\ EpochsToRun = 0 =>
            /\ fs = fs0
            /\ best_prec1 = EntryBest(log)
      /\ (pc = "done" /\ ~args.imagenet) =>
            log[Len(log)].ev = "test"

\* C9: the training loop terminates after exactly max(0, epochs -
\* start_epoch) epochs, writing checkpoint.pth.tar once per epoch; when
\* start_epoch >= epochs no epoch runs, no checkpoint file is written,
\* best_prec1 is printed unchanged and the final test pass still runs for
\* a non-ImageNet run.
C9_LoopTerminates == []C9_Counts /\ <>Terminated

\* a run that restored a start_epoch >= epochs and still ran the test pass
C9_Witness ==
    /\ pc = "done"
    /\ Restored(log)
    /\ args0.start_epoch < args.epochs
    /\ args.start_epoch >= args.epochs
    /\ Len(log) = 2
    /\ log[2].ev = "test"
    /\ printed = PriorBest

---------------------------------------------------------------------------
(* C5 *)

\* the calls of all runs so far, the stopped ones first
full == past \o log

TrainEvents == SelectSeq(full, LAMBDA x : x.ev = "train")
ValidateEvents == SelectSeq(full, LAMBDA x : x.ev = "validate")

\* start_epoch of the first run's loop
FirstStart == IF Restored(full) THEN full[1].epoch ELSE args0.start_epoch

\* best_prec1 of an uninterrupted loop entered with best that validates
\* the precisions of vs, in order
RECURSIVE UninterruptedBest(_, _)
UninterruptedBest(best, vs) ==
    IF vs = <<>> THEN best
    ELSE UninterruptedBest(IF Head(vs).val > best THEN Head(vs).val ELSE best,
                           Tail(vs))

\* C5: the 'epoch' written after epoch e is e + 1, a --resume run takes
\* start_epoch = e + 1 and best_prec1 from the file, and so a run stopped
\* after any epoch and resumed trains exactly the remaining epochs (none
\* repeated, none skipped), each at the learning rate of an uninterrupted
\* run, and ends with the best_prec1 of an uninterrupted run.
C5_ResumeRoundTrip ==
    TrainingRun =>
      /\ pc = "stopped" =>
            LET k == MaxOf(Idx(log, "save"))
            IN  /\ fs[CheckpointPath(args.name)].epoch = log[k].epoch + 1
                /\ fs[CheckpointPath(args.name)].best_prec1 = best_prec1
      /\ (past # <<>> /\ pc \notin {"setup", "resume"}) =>
            /\ Restored(log)
            /\ args.start_epoch = past[Len(past)].epoch + 1
            /\ EntryBest(log) = BestBefore(past, Len(past) + 1)
      /\ \A i \in 1 .. Len(TrainEvents) :
            /\ TrainEvents[i].epoch = FirstStart + i - 1
            /\ TrainEvents[i].val =
                   adjust_learning_rate(args.imagenet, FirstStart + i - 1)
      /\ pc \in {"print", "finaltest", "done"} =>
            /\ Len(TrainEvents) = IF args.epochs > FirstStart
                                  THEN args.epochs - FirstStart ELSE 0
            /\ best_prec1 = UninterruptedBest(EntryBest(full), ValidateEvents)

\* a run stopped and resumed that finished past a decay boundary with the
\* best precision reached before the stop
C5_Witness ==
    /\ pc = "done"
    /\ past # <<>>
    /\ Idx(log, "train") # {}
    /\ optimizer = 1
    /\ best_prec1 > prec1
    /\ best_prec1 > PriorBest

===========================================================================
